---- MODULE Spec2Model ----
(***************************************************************************)
(* A model of canopy's AzureOpenAILLM adapter                              *)
(* (src/canopy/llm/azure_openai_llm.py): construction from constructor     *)
(* arguments and process environment, the synchronous                      *)
(* enforced_function_call (parameter merge, request, json.loads of the     *)
(* returned arguments, jsonschema.validate against the function's          *)
(* parameter schema), and the two unimplemented coroutines.                *)
(***************************************************************************)
EXTENDS Integers, Sequences, FiniteSets, TLC

VARIABLES env, api_type, ctor, adapter, thr

vars == <<env, api_type, ctor, adapter, thr>>

(***************************************************************************)
(* Values                                                                  *)
(***************************************************************************)
\* Python's None, and an environment variable that is not set.
None == "<None>"
Unset == "<unset>"

\* The value an environment variable holds when set, and the value an
\* explicit constructor argument holds when given.
EnvValue == "from-env"
ArgValue == "from-arg"

EnvVars ==
    {"AZURE_OPENAI_API_KEY", "AZURE_OPENAI_ENDPOINT", "OPENAI_API_VERSION",
     "AZURE_DEPLOYMENT"}

\* A dict with no key.
EmptyDict == [k \in {} |-> 0]

Threads == {1, 2}

(***************************************************************************)
(* __init__                                                                *)
(***************************************************************************)
\* os.environ[name]: the value, or KeyError when the variable is not set.
environ_getitem(e, name) ==
    IF e[name] = Unset
    THEN [raised |-> TRUE, error |-> "KeyError", missing |-> name, value |-> None]
    ELSE [raised |-> FALSE, error |-> "", missing |-> "", value |-> e[name]]

\* os.getenv(name): the value, or None when the variable is not set.
getenv(e, name) == IF e[name] = Unset THEN None ELSE e[name]

\* `if os.environ[name] is None: raise EnvironmentError(...)`: the lookup
\* raises KeyError first when the variable is not set; a set variable holds a
\* string, which is never None.
RequireEnviron(e, name) ==
    LET got == environ_getitem(e, name)
    IN  IF got.raised THEN got
        ELSE IF got.value = None
        THEN [raised |-> TRUE, error |-> "EnvironmentError", missing |-> name,
              value |-> None]
        ELSE got

\* The AzureOpenAI client's constructor as called at lines 85-90: a None
\* api_key, api_version or azure_endpoint falls back to its environment
\* variable inside the client library, which raises when that is missing too.
AzureOpenAI(e, azure_deployment, azure_endpoint, api_version, api_key) ==
    LET key == IF api_key = None THEN getenv(e, "AZURE_OPENAI_API_KEY") ELSE api_key
        ver == IF api_version = None THEN getenv(e, "OPENAI_API_VERSION")
               ELSE api_version
        endp == IF azure_endpoint = None THEN getenv(e, "AZURE_OPENAI_ENDPOINT")
                ELSE azure_endpoint
        client == [api_key |-> key, azure_endpoint |-> endp, api_version |-> ver,
                   azure_deployment |-> azure_deployment]
    IN  IF key = None
        THEN [raised |-> TRUE, error |-> "OpenAIError",
              missing |-> "AZURE_OPENAI_API_KEY", client |-> client]
        ELSE IF ver = None
        THEN [raised |-> TRUE, error |-> "ValueError",
              missing |-> "OPENAI_API_VERSION", client |-> client]
        ELSE IF endp = None
        THEN [raised |-> TRUE, error |-> "ValueError",
              missing |-> "AZURE_OPENAI_ENDPOINT", client |-> client]
        ELSE [raised |-> FALSE, error |-> "", missing |-> "", client |-> client]

NoClient ==
    [api_key |-> None, azure_endpoint |-> None, api_version |-> None,
     azure_deployment |-> None]

\* The keyword arguments __init__ passes to AzureOpenAI(...) at lines 85-88.
ClientArguments(azure_deployment, a) ==
    [azure_deployment |-> azure_deployment, azure_endpoint |-> a.azure_endpoint,
     api_version |-> a.azure_api_version, api_key |-> a.azure_api_key]

NoAdapter ==
    [exists |-> FALSE, model_name |-> None, default_model_params |-> EmptyDict,
     client_args |-> NoClient, client |-> NoClient]

\* super().__init__(model_name): the base adapter keeps the model name.
BaseInit(model_name) == model_name

\* __init__ without the check that a deployment is named: a None deployment
\* goes to the client as it is.
InitResult_NoDeploymentCheck(e, model_name, a, kwargs) ==
    LET k1 == RequireEnviron(e, "AZURE_OPENAI_API_KEY")
        k2 == RequireEnviron(e, "AZURE_OPENAI_ENDPOINT")
        k3 == RequireEnviron(e, "OPENAI_API_VERSION")
        cl == AzureOpenAI(e, a.azure_deployment, a.azure_endpoint,
                          a.azure_api_version, a.azure_api_key)
        fail(err, var, typed) ==
            [status |-> "raised", error |-> err, missing |-> var,
             api_type_set |-> typed, adapter |-> NoAdapter]
    IN  IF k1.raised THEN fail(k1.error, k1.missing, FALSE)
        ELSE IF k2.raised THEN fail(k2.error, k2.missing, FALSE)
        ELSE IF k3.raised THEN fail(k3.error, k3.missing, FALSE)
        ELSE IF cl.raised THEN fail(cl.error, cl.missing, TRUE)
        ELSE [status |-> "ok", error |-> "", missing |-> "",
              api_type_set |-> TRUE,
              adapter |-> [exists |-> TRUE, model_name |-> BaseInit(model_name),
                           default_model_params |-> kwargs,
                           client_args |-> ClientArguments(a.azure_deployment, a),
                           client |-> cl.client]]

\* The body of __init__, in the order of its statements: the result is the
\* exception raised, or the constructed adapter.
InitResult(e, model_name, a, kwargs) ==
    LET k1 == RequireEnviron(e, "AZURE_OPENAI_API_KEY")
        k2 == RequireEnviron(e, "AZURE_OPENAI_ENDPOINT")
        k3 == RequireEnviron(e, "OPENAI_API_VERSION")
        dep == IF a.azure_deployment = None
               THEN getenv(e, "AZURE_DEPLOYMENT")
               ELSE a.azure_deployment
        cl == AzureOpenAI(e, dep, a.azure_endpoint, a.azure_api_version,
                          a.azure_api_key)
        fail(err, var, typed) ==
            [status |-> "raised", error |-> err, missing |-> var,
             api_type_set |-> typed, adapter |-> NoAdapter]
    IN  IF k1.raised THEN fail(k1.error, k1.missing, FALSE)
        ELSE IF k2.raised THEN fail(k2.error, k2.missing, FALSE)
        ELSE IF k3.raised THEN fail(k3.error, k3.missing, FALSE)
        ELSE IF a.azure_deployment = None /\ getenv(e, "AZURE_DEPLOYMENT") = None
        THEN fail("EnvironmentError", "AZURE_DEPLOYMENT", FALSE)
        ELSE IF cl.raised THEN fail(cl.error, cl.missing, TRUE)
        ELSE [status |-> "ok", error |-> "", missing |-> "",
              api_type_set |-> TRUE,
              adapter |-> [exists |-> TRUE, model_name |-> BaseInit(model_name),
                           default_model_params |-> kwargs,
                           client_args |-> ClientArguments(dep, a),
                           client |-> cl.client]]

(***************************************************************************)
(* JSON text and json.loads                                                *)
(***************************************************************************)
\* A JSON text is the sequence of its lexical tokens: punctuation, string
\* literals, number literals (an integer, or n.d with a fraction) and bare
\* words. Python's decoder knows the words null, true and false of JSON and
\* also NaN, Infinity and -Infinity, which are not JSON (RFC 8259).
Punct(c) == [k |-> "punct", c |-> c]
StrTok(s) == [k |-> "string", s |-> s]
NumTok(n) == [k |-> "number", n |-> n]
RealTok(n, d) == [k |-> "real", n |-> n, d |-> d]
WordTok(w) == [k |-> "word", w |-> w]

\* Decoded values (Python objects).
JNull == [t |-> "null"]
JBool(b) == [t |-> "bool", b |-> b]
JInt(n) == [t |-> "int", n |-> n]
JStr(s) == [t |-> "string", s |-> s]
\* A float: n.d, or nan, inf, -inf.
JFloat(n, d) == [t |-> "float", kind |-> "finite", n |-> n, d |-> d]
JNaN == [t |-> "float", kind |-> "nan", n |-> 0, d |-> 0]
JInfinity == [t |-> "float", kind |-> "inf", n |-> 0, d |-> 0]
JNegInfinity == [t |-> "float", kind |-> "-inf", n |-> 0, d |-> 0]
JArr(items) == [t |-> "array", items |-> items]
JObj(members) == [t |-> "object", members |-> members]
NoValue == [t |-> "<no value>"]

IsPunct(toks, i, c) ==
    i <= Len(toks) /\ toks[i].k = "punct" /\ toks[i].c = c

ParseFail == [ok |-> FALSE, val |-> NoValue, next |-> 0]

\* dict[key] = value: a repeated key keeps the last value.
DictSet(d, key, value) ==
    [x \in DOMAIN d \cup {key} |-> IF x = key THEN value ELSE d[x]]

RECURSIVE scan_once(_, _)
RECURSIVE JSONArray(_, _, _)
RECURSIVE JSONObject(_, _, _)

\* json.scanner's scan_once: the value that starts at token i.
scan_once(toks, i) ==
    IF i > Len(toks) THEN ParseFail
    ELSE LET tk == toks[i]
         IN  CASE tk.k = "string" -> [ok |-> TRUE, val |-> JStr(tk.s), next |-> i + 1]
               [] tk.k = "number" -> [ok |-> TRUE, val |-> JInt(tk.n), next |-> i + 1]
               [] tk.k = "real" ->
                    [ok |-> TRUE, val |-> JFloat(tk.n, tk.d), next |-> i + 1]
               [] tk.k = "word" ->
                    IF tk.w = "null"
                    THEN [ok |-> TRUE, val |-> JNull, next |-> i + 1]
                    ELSE IF tk.w = "true"
                    THEN [ok |-> TRUE, val |-> JBool(TRUE), next |-> i + 1]
                    ELSE IF tk.w = "false"
                    THEN [ok |-> TRUE, val |-> JBool(FALSE), next |-> i + 1]
                    ELSE IF tk.w = "NaN"
                    THEN [ok |-> TRUE, val |-> JNaN, next |-> i + 1]
                    ELSE IF tk.w = "Infinity"
                    THEN [ok |-> TRUE, val |-> JInfinity, next |-> i + 1]
                    ELSE IF tk.w = "-Infinity"
                    THEN [ok |-> TRUE, val |-> JNegInfinity, next |-> i + 1]
                    ELSE ParseFail
               [] tk.k = "punct" ->
                    IF tk.c = "{"
                    THEN IF IsPunct(toks, i + 1, "}")
                         THEN [ok |-> TRUE, val |-> JObj(EmptyDict), next |-> i + 2]
                         ELSE JSONObject(toks, i + 1, EmptyDict)
                    ELSE IF tk.c = "["
                    THEN IF IsPunct(toks, i + 1, "]")
                         THEN [ok |-> TRUE, val |-> JArr(<<>>), next |-> i + 2]
                         ELSE JSONArray(toks, i + 1, <<>>)
                    ELSE ParseFail

\* json.decoder.JSONArray's loop: a value, then "," and again, or "]".
JSONArray(toks, i, acc) ==
    LET v == scan_once(toks, i)
    IN  IF ~v.ok THEN ParseFail
        ELSE IF IsPunct(toks, v.next, "]")
        THEN [ok |-> TRUE, val |-> JArr(Append(acc, v.val)), next |-> v.next + 1]
        ELSE IF IsPunct(toks, v.next, ",")
        THEN JSONArray(toks, v.next + 1, Append(acc, v.val))
        ELSE ParseFail

\* json.decoder.JSONObject's loop: a string key, ":", a value, then "," and
\* again, or "}".
JSONObject(toks, i, acc) ==
    IF i > Len(toks) \/ toks[i].k # "string" THEN ParseFail
    ELSE IF ~IsPunct(toks, i + 1, ":") THEN ParseFail
    ELSE LET v == scan_once(toks, i + 2)
         IN  IF ~v.ok THEN ParseFail
             ELSE IF IsPunct(toks, v.next, "}")
             THEN [ok |-> TRUE, val |-> JObj(DictSet(acc, toks[i].s, v.val)),
                   next |-> v.next + 1]
             ELSE IF IsPunct(toks, v.next, ",")
             THEN JSONObject(toks, v.next + 1, DictSet(acc, toks[i].s, v.val))
             ELSE ParseFail

\* json.loads(text): one value and nothing after it, or JSONDecodeError.
json_loads(toks) ==
    LET v == scan_once(toks, 1)
    IN  IF v.ok /\ v.next = Len(toks) + 1
        THEN [raised |-> FALSE, error |-> "", value |-> v.val]
        ELSE [raised |-> TRUE, error |-> "JSONDecodeError", value |-> NoValue]


(***************************************************************************)
(* Function descriptors, their schema, jsonschema.validate                 *)
(***************************************************************************)
\* A property of a function: FunctionPrimitiveProperty (type, optional
\* enum of strings) or FunctionArrayProperty (items_type). An enum of <<>>
\* stands for None.
PrimitiveProperty(name, type, enum) ==
    [name |-> name, array |-> FALSE, type |-> type, enum |-> enum]
ArrayProperty(name, items_type) ==
    [name |-> name, array |-> TRUE, type |-> items_type, enum |-> <<>>]

\* property.dict(exclude_none=True, exclude={"name"}): an array property
\* becomes {"type": "array", "items": {"type": items_type}}.
PropertyDict(p) ==
    IF p.array
    THEN [type |-> "array", has_items |-> TRUE, items_type |-> p.type,
          has_enum |-> FALSE, enum |-> <<>>]
    ELSE [type |-> p.type, has_items |-> FALSE, items_type |-> None,
          has_enum |-> p.enum # <<>>, enum |-> p.enum]

RECURSIVE PropertiesDict(_, _)
\* {pro.name: pro.dict(...) for pro in props}: a repeated name keeps the
\* last property.
PropertiesDict(props, acc) ==
    IF props = <<>> THEN acc
    ELSE PropertiesDict(Tail(props),
                        DictSet(acc, Head(props).name, PropertyDict(Head(props))))

\* function.parameters.dict(): the JSON schema of the arguments.
FunctionParametersDict(params) ==
    [type |-> "object",
     properties |->
         PropertiesDict(params.required_properties \o params.optional_properties,
                        EmptyDict),
     required |-> [i \in 1..Len(params.required_properties) |->
                      params.required_properties[i].name]]

\* function.dict(): the interface descriptor sent to the service.
FunctionDict(f) ==
    [name |-> f.name, description |-> f.description,
     parameters |-> FunctionParametersDict(f.parameters)]

\* jsonschema's type checker: a bool is no integer and no number; a float
\* is a number, and an integer when it is finite with no fraction.
is_type(v, type) ==
    CASE type = "string" -> v.t = "string"
      [] type = "integer" ->
           v.t = "int" \/ (v.t = "float" /\ v.kind = "finite" /\ v.d = 0)
      [] type = "number" -> v.t = "int" \/ v.t = "float"
      [] type = "boolean" -> v.t = "bool"
      [] type = "null" -> v.t = "null"
      [] type = "array" -> v.t = "array"
      [] type = "object" -> v.t = "object"
      [] OTHER -> FALSE

\* The errors of one property's subschema on the value v, as the keywords
\* that fail: "type", "items" (some item is not of the items' type; applies
\* to arrays only), "enum" (v is none of the listed strings).
PropertyErrors(v, ps) ==
    (IF is_type(v, ps.type) THEN {} ELSE {"type"})
    \cup (IF /\ ps.has_items
             /\ v.t = "array"
             /\ \E i \in 1..Len(v.items) : ~is_type(v.items[i], ps.items_type)
          THEN {"items"} ELSE {})
    \cup (IF /\ ps.has_enum
             /\ ~(v.t = "string" /\ \E i \in 1..Len(ps.enum) : ps.enum[i] = v.s)
          THEN {"enum"} ELSE {})

\* validator.iter_errors(instance): every failing keyword with the place it
\* fails at. "properties" and "required" apply to objects only.
iter_errors(v, schema) ==
    (IF is_type(v, schema.type) THEN {} ELSE {<<"", "type">>})
    \cup (IF v.t # "object" THEN {}
          ELSE UNION {{<<k, kw>> : kw \in PropertyErrors(v.members[k],
                                                         schema.properties[k])}
                      : k \in DOMAIN schema.properties \cap DOMAIN v.members})
    \cup (IF v.t # "object" THEN {}
          ELSE {<<schema.required[i], "required">> :
                   i \in {j \in 1..Len(schema.required) :
                             schema.required[j] \notin DOMAIN v.members}})

\* The type names of JSON Schema (the metaschema's simpleTypes).
SimpleTypes ==
    {"array", "boolean", "integer", "null", "number", "object", "string"}

\* Validator.check_schema(schema): the schema is valid against the
\* metaschema when every "type" is a type name and "required" lists no name
\* twice.
SchemaIsValid(schema) ==
    /\ schema.type \in SimpleTypes
    /\ \A k \in DOMAIN schema.properties :
           /\ schema.properties[k].type \in SimpleTypes
           /\ schema.properties[k].has_items =>
                  schema.properties[k].items_type \in SimpleTypes
    /\ \A i, j \in 1..Len(schema.required) :
           schema.required[i] = schema.required[j] => i = j

\* jsonschema.validate(instance, schema): check_schema first, which raises
\* SchemaError on an invalid schema whatever the instance is; then
\* ValidationError when iter_errors yields an error; None otherwise.
jsonschema_validate(v, schema) ==
    IF ~SchemaIsValid(schema)
    THEN [raised |-> TRUE, error |-> "SchemaError"]
    ELSE IF iter_errors(v, schema) # {}
    THEN [raised |-> TRUE, error |-> "ValidationError"]
    ELSE [raised |-> FALSE, error |-> ""]


(***************************************************************************)
(* enforced_function_call                                                  *)
(***************************************************************************)
\* An optional dict argument: None, or a dict.
NoneDict == [is_none |-> TRUE, dict |-> EmptyDict]
SomeDict(d) == [is_none |-> FALSE, dict |-> d]

\* An optional int argument: None, or an int.
NoneInt == [is_none |-> TRUE, n |-> 0]
SomeInt(n) == [is_none |-> FALSE, n |-> n]

\* dict.update(**other): other's keys replace or extend d's.
DictUpdate(d, other) ==
    [k \in DOMAIN d \cup DOMAIN other |->
        IF k \in DOMAIN other THEN other[k] ELSE d[k]]

\* The merge with the two updates in the other order: a default wins over
\* the call's override.
MergedModelParams_DefaultsWin(default_model_params, model_params) ==
    LET base == IF ~model_params.is_none /\ model_params.dict # EmptyDict
                THEN DictUpdate(EmptyDict, model_params.dict)
                ELSE EmptyDict
    IN  DictUpdate(base, default_model_params)

\* model_params_dict: the defaults, then the call's model_params when that
\* is truthy (neither None nor an empty dict).
MergedModelParams(default_model_params, model_params) ==
    LET base == DictUpdate(EmptyDict, default_model_params)
    IN  IF ~model_params.is_none /\ model_params.dict # EmptyDict
        THEN DictUpdate(base, model_params.dict)
        ELSE base

\* The keyword arguments the call to create() passes by name; a key of
\* **model_params_dict that repeats one of them is a TypeError at the call,
\* before create() runs.
ExplicitKeywords == {"model", "messages", "functions", "function_call", "max_tokens"}

\* The Role enum's value, as Message.dict() writes it.
RoleValue(role) ==
    CASE role = "Role.USER" -> "user"
      [] role = "Role.SYSTEM" -> "system"
      [] role = "Role.ASSISTANT" -> "assistant"

\* m.dict(): role and content of one message.
MessageDict(m) == [role |-> RoleValue(m.role), content |-> m.content]

\* The messages serialized last first.
MessagesDicts_Reversed(messages) ==
    [i \in 1..Len(messages) |-> MessageDict(messages[Len(messages) + 1 - i])]

\* [m.dict() for m in messages]
MessagesDicts(messages) == [i \in 1..Len(messages) |-> MessageDict(messages[i])]

\* A directive that names one function whatever function is passed in.
FunctionCallDirective_Fixed(function) == [name |-> "query_knowledgebase"]

\* {"name": function.name}
FunctionCallDirective(function) == [name |-> function.name]

\* The arguments of self._client.chat.completions.create(...).
CreateArguments(a, messages, function, max_tokens, model_params) ==
    [model |-> a.model_name,
     messages |-> MessagesDicts(messages),
     functions |-> <<FunctionDict(function)>>,
     function_call |-> FunctionCallDirective(function),
     max_tokens |-> max_tokens,
     params |-> MergedModelParams(a.default_model_params, model_params)]

NoRequest == [model |-> None]
NoResponse == [transport_error |-> FALSE, choices |-> <<>>]
NoFunction == [name |-> None]
NoOutcome == [kind |-> "none", error |-> "", value |-> NoValue]
Raise(error) == [kind |-> "raise", error |-> error, value |-> NoValue]
Return(value) == [kind |-> "return", error |-> "", value |-> value]

IdleThread ==
    [pc |-> "idle", op |-> "none", messages |-> <<>>, function |-> NoFunction,
     max_tokens |-> NoneInt, model_params |-> NoneDict, nreq |-> 0,
     req |-> NoRequest, got_response |-> FALSE, resp |-> NoResponse,
     loads_called |-> FALSE, validate_called |-> FALSE, out |-> NoOutcome]

\* Lines 159-163 without the call to jsonschema.validate: the deserialized
\* arguments are returned as they are.
ResponseResult_SkipValidate(function, resp) ==
    IF resp.transport_error
    THEN [loads_called |-> FALSE, validate_called |-> FALSE,
          out |-> Raise("APIConnectionError")]
    ELSE IF Len(resp.choices) = 0
    THEN [loads_called |-> FALSE, validate_called |-> FALSE,
          out |-> Raise("IndexError")]
    ELSE IF ~resp.choices[1].has_function_call
    THEN [loads_called |-> FALSE, validate_called |-> FALSE,
          out |-> Raise("AttributeError")]
    ELSE LET loaded == json_loads(resp.choices[1].arguments)
         IN  IF loaded.raised
             THEN [loads_called |-> TRUE, validate_called |-> FALSE,
                   out |-> Raise(loaded.error)]
             ELSE [loads_called |-> TRUE, validate_called |-> FALSE,
                   out |-> Return(loaded.value)]

\* Lines 159-163 on the service's response: choices[0], its message's
\* function_call, json.loads of its arguments, jsonschema.validate, return.
\* A transport error is raised by create() itself.
ResponseResult(function, resp) ==
    IF resp.transport_error
    THEN [loads_called |-> FALSE, validate_called |-> FALSE,
          out |-> Raise("APIConnectionError")]
    ELSE IF Len(resp.choices) = 0
    THEN [loads_called |-> FALSE, validate_called |-> FALSE,
          out |-> Raise("IndexError")]
    ELSE IF ~resp.choices[1].has_function_call
    THEN [loads_called |-> FALSE, validate_called |-> FALSE,
          out |-> Raise("AttributeError")]
    ELSE LET loaded == json_loads(resp.choices[1].arguments)
         IN  IF loaded.raised
             THEN [loads_called |-> TRUE, validate_called |-> FALSE,
                   out |-> Raise(loaded.error)]
             ELSE LET checked ==
                          jsonschema_validate(
                              loaded.value,
                              FunctionParametersDict(function.parameters))
                  IN  IF checked.raised
                      THEN [loads_called |-> TRUE, validate_called |-> TRUE,
                            out |-> Raise(checked.error)]
                      ELSE [loads_called |-> TRUE, validate_called |-> TRUE,
                            out |-> Return(loaded.value)]

(***************************************************************************)
(* Actions                                                                 *)
(***************************************************************************)
NoArgs ==
    [azure_deployment |-> None, azure_endpoint |-> None,
     azure_api_version |-> None, azure_api_key |-> None]

NotConstructed ==
    [status |-> "none", error |-> "", missing |-> "", args |-> NoArgs,
     kwargs |-> EmptyDict]

\* AzureOpenAILLM(model_name, azure_deployment=..., azure_endpoint=...,
\* azure_api_version=..., azure_api_key=..., **kwargs)
Construct(model_name, a, kwargs) ==
    /\ ctor.status = "none"
    /\ LET r == InitResult(env, model_name, a, kwargs)
       IN  /\ ctor' = [status |-> r.status, error |-> r.error,
                       missing |-> r.missing, args |-> a, kwargs |-> kwargs]
           /\ adapter' = r.adapter
           /\ api_type' = IF r.api_type_set THEN "azure" ELSE api_type
    /\ UNCHANGED <<env, thr>>

\* enforced_function_call with model_params_dict an alias of
\* self.default_model_params: the call's overrides are written into the
\* stored defaults.
enforced_function_call_UpdatesDefaults(t, messages, function, max_tokens, model_params) ==
    /\ adapter.exists
    /\ thr[t].pc = "idle"
    /\ LET args == CreateArguments(adapter, messages, function, max_tokens,
                                   model_params)
           call == [IdleThread EXCEPT !.op = "enforced_function_call",
                                      !.messages = messages,
                                      !.function = function,
                                      !.max_tokens = max_tokens,
                                      !.model_params = model_params]
       IN  /\ adapter' = [adapter EXCEPT !.default_model_params = args.params]
           /\ IF DOMAIN args.params \cap ExplicitKeywords # {}
              THEN thr' = [thr EXCEPT ![t] = [call EXCEPT !.pc = "done",
                                                          !.out = Raise("TypeError")]]
              ELSE thr' = [thr EXCEPT ![t] = [call EXCEPT !.pc = "waiting",
                                                          !.nreq = 1,
                                                          !.req = args]]
    /\ UNCHANGED <<env, api_type, ctor>>

\* llm.enforced_function_call(messages, function, max_tokens=...,
\* model_params=...) on thread t, up to the point where create() has sent
\* the request and waits for the service; or up to the TypeError of a
\* repeated keyword.
enforced_function_call(t, messages, function, max_tokens, model_params) ==
    /\ adapter.exists
    /\ thr[t].pc = "idle"
    /\ LET args == CreateArguments(adapter, messages, function, max_tokens,
                                   model_params)
           call == [IdleThread EXCEPT !.op = "enforced_function_call",
                                      !.messages = messages,
                                      !.function = function,
                                      !.max_tokens = max_tokens,
                                      !.model_params = model_params]
       IN  IF DOMAIN args.params \cap ExplicitKeywords # {}
           THEN thr' = [thr EXCEPT ![t] = [call EXCEPT !.pc = "done",
                                                       !.out = Raise("TypeError")]]
           ELSE thr' = [thr EXCEPT ![t] = [call EXCEPT !.pc = "waiting",
                                                       !.nreq = 1,
                                                       !.req = args]]
    /\ UNCHANGED <<env, api_type, ctor, adapter>>

\* The service answers thread t's request (or the transport fails), and
\* enforced_function_call runs to its end.
create_returns(t, resp) ==
    /\ thr[t].pc = "waiting"
    /\ LET r == ResponseResult(thr[t].function, resp)
       IN  thr' = [thr EXCEPT ![t].pc = "done",
                              ![t].got_response = TRUE,
                              ![t].resp = resp,
                              ![t].loads_called = r.loads_called,
                              ![t].validate_called = r.validate_called,
                              ![t].out = r.out]
    /\ UNCHANGED <<env, api_type, ctor, adapter>>

\* achat_completion completing with no error and an empty result.
achat_completion_Completes(t, messages, stream, max_generated_tokens, model_params) ==
    /\ adapter.exists
    /\ thr[t].pc = "idle"
    /\ thr' = [thr EXCEPT ![t] = [IdleThread EXCEPT
                                      !.pc = "done",
                                      !.op = "achat_completion",
                                      !.messages = messages,
                                      !.max_tokens = max_generated_tokens,
                                      !.model_params = model_params,
                                      !.out = Return(JNull)]]
    /\ UNCHANGED <<env, api_type, ctor, adapter>>

\* await llm.achat_completion(messages, stream=..., max_generated_tokens=...,
\* model_params=...)
achat_completion(t, messages, stream, max_generated_tokens, model_params) ==
    /\ adapter.exists
    /\ thr[t].pc = "idle"
    /\ thr' = [thr EXCEPT ![t] = [IdleThread EXCEPT
                                      !.pc = "done",
                                      !.op = "achat_completion",
                                      !.messages = messages,
                                      !.max_tokens = max_generated_tokens,
                                      !.model_params = model_params,
                                      !.out = Raise("NotImplementedError")]]
    /\ UNCHANGED <<env, api_type, ctor, adapter>>

\* await llm.agenerate_queries(messages, max_generated_tokens=...,
\* model_params=...)
agenerate_queries(t, messages, max_generated_tokens, model_params) ==
    /\ adapter.exists
    /\ thr[t].pc = "idle"
    /\ thr' = [thr EXCEPT ![t] = [IdleThread EXCEPT
                                      !.pc = "done",
                                      !.op = "agenerate_queries",
                                      !.messages = messages,
                                      !.max_tokens = max_generated_tokens,
                                      !.model_params = model_params,
                                      !.out = Raise("NotImplementedError")]]
    /\ UNCHANGED <<env, api_type, ctor, adapter>>


\* The caller of thread t has the call's result or exception; the call's
\* locals are gone, and the thread may call again.
caller_continues(t) ==
    /\ thr[t].pc = "done"
    /\ thr' = [thr EXCEPT ![t] = IdleThread]
    /\ UNCHANGED <<env, api_type, ctor, adapter>>

(***************************************************************************)
(* Inputs                                                                  *)
(***************************************************************************)
\* Bounds of the inputs.
MaxMsgs == 2
MaxParamVal == 2
MaxTokens == 1
MaxArr == 2

SeqsUpTo(S, n) == UNION {[1..k -> S] : k \in 0..n}

\* Every dict with keys among K and values among V.
Dicts(K, V) == UNION {[D -> V] : D \in SUBSET K}

\* Environments: every variable set or not.
Envs == [EnvVars -> {Unset, EnvValue}]
FullEnv == [v \in EnvVars |-> EnvValue]

\* Constructor arguments: each given or None.
CtorArgs ==
    [azure_deployment : {None, ArgValue}, azure_endpoint : {None, ArgValue},
     azure_api_version : {None, ArgValue}, azure_api_key : {None, ArgValue}]

ModelNames == {"gpt-3.5-turbo"}

\* Generation parameters; max_tokens is one the chat-completion API knows
\* and the call also passes by name.
ParamKeys == {"temperature", "top_p", "max_tokens"}
ParamDicts == Dicts(ParamKeys, 1..MaxParamVal)
OptParamDicts == {NoneDict} \cup {SomeDict(d) : d \in ParamDicts}

OptTokens == {NoneInt} \cup {SomeInt(n) : n \in 1..MaxTokens}

Messages ==
    [role : {"Role.USER", "Role.ASSISTANT", "Role.SYSTEM"},
     content : {"Hello! How are you?"}]
Histories == SeqsUpTo(Messages, MaxMsgs)

Properties ==
    {ArrayProperty("queries", "string"),
     PrimitiveProperty("queries", "string", <<"a">>),
     PrimitiveProperty("top_k", "integer", <<>>),
     PrimitiveProperty("top_k", "number", <<>>),
     PrimitiveProperty("top_k", "boolean", <<>>)}

\* Parameter lists: none, one or two required properties (two of one name
\* among them), with or without an optional one.
ParameterLists ==
    [required_properties :
         {<<>>} \cup {<<p>> : p \in Properties}
         \cup {<<ArrayProperty("queries", "string"),
                 PrimitiveProperty("top_k", "integer", <<>>)>>,
               <<ArrayProperty("queries", "string"),
                 PrimitiveProperty("queries", "string", <<"a">>)>>},
     optional_properties :
         {<<>>, <<PrimitiveProperty("top_k", "integer", <<>>)>>,
          <<ArrayProperty("queries", "integer")>>}]

FunctionsNamed(names) ==
    [name : names,
     description : {"Query search engine for relevant information"},
     parameters : ParameterLists]

Functions == FunctionsNamed({"query_knowledgebase", "f"})

\* The docstring's function: one required array of strings, "queries".
QueryKnowledgebase ==
    [name |-> "query_knowledgebase",
     description |-> "Query search engine for relevant information",
     parameters |-> [required_properties |-> <<ArrayProperty("queries", "string")>>,
                     optional_properties |-> <<>>]]

\* JSON values the service may send as arguments.
Scalars ==
    {JStr("a"), JInt(1), JBool(TRUE), JNull, JFloat(1, 0), JFloat(1, 5), JNaN,
     JInfinity, JNegInfinity}
Items == {JStr("a"), JInt(1), JNaN}
TopKValues == {JInt(1), JBool(TRUE), JFloat(1, 0), JFloat(1, 5), JNaN}
Arrays == {JArr(items) : items \in SeqsUpTo(Items, MaxArr)}
QueriesMembers == UNION {[D -> Scalars \cup Arrays] : D \in SUBSET {"queries"}}
Objects ==
    {JObj(m) : m \in QueriesMembers}
    \cup {JObj(DictUpdate(m, [k \in {"top_k"} |-> v])) :
             m \in QueriesMembers, v \in TopKValues}
JsonValues == Scalars \cup Arrays \cup Objects

KeyOrder == <<"queries", "top_k">>

RECURSIVE Join(_, _)
\* The items' texts with a "," between them.
Join(texts, i) ==
    IF i > Len(texts) THEN <<>>
    ELSE IF i = Len(texts) THEN texts[i]
    ELSE texts[i] \o <<Punct(",")>> \o Join(texts, i + 1)

RECURSIVE Dumps(_)
\* json.dumps(v), as tokens.
Dumps(v) ==
    CASE v.t = "string" -> <<StrTok(v.s)>>
      [] v.t = "int" -> <<NumTok(v.n)>>
      [] v.t = "float" ->
           IF v.kind = "finite" THEN <<RealTok(v.n, v.d)>>
           ELSE IF v.kind = "nan" THEN <<WordTok("NaN")>>
           ELSE IF v.kind = "inf" THEN <<WordTok("Infinity")>>
           ELSE <<WordTok("-Infinity")>>
      [] v.t = "bool" -> <<WordTok(IF v.b THEN "true" ELSE "false")>>
      [] v.t = "null" -> <<WordTok("null")>>
      [] v.t = "array" ->
           <<Punct("[")>>
           \o Join([i \in 1..Len(v.items) |-> Dumps(v.items[i])], 1)
           \o <<Punct("]")>>
      [] v.t = "object" ->
           LET keys == SelectSeq(KeyOrder, LAMBDA k : k \in DOMAIN v.members)
           IN  <<Punct("{")>>
               \o Join([i \in 1..Len(keys) |->
                           <<StrTok(keys[i]), Punct(":")>> \o Dumps(v.members[keys[i]])],
                       1)
               \o <<Punct("}")>>

\* The text without its i-th token.
DropToken(text, i) ==
    [j \in 1..(Len(text) - 1) |-> IF j < i THEN text[j] ELSE text[j + 1]]

\* The text with its i-th token, a string literal, written without quotes.
Unquote(text, i) ==
    [text EXCEPT ![i] = IF text[i].k = "string" THEN WordTok(text[i].s) ELSE text[i]]

\* Argument strings: well-formed texts, the same damaged in one place, and
\* a text that repeats a key.
ArgumentTexts ==
    {Dumps(v) : v \in JsonValues}
    \cup UNION {{DropToken(Dumps(v), i) : i \in 1..Len(Dumps(v))} : v \in JsonValues}
    \cup UNION {{Unquote(Dumps(v), i) : i \in 1..Len(Dumps(v))} : v \in JsonValues}
    \cup {<<Punct("{"), StrTok("queries"), Punct(":"), NumTok(1), Punct(","),
            StrTok("queries"), Punct(":"), Punct("["), StrTok("a"), Punct("]"),
            Punct("}")>>}

TransportError == [transport_error |-> TRUE, choices |-> <<>>]
NoChoices == [transport_error |-> FALSE, choices |-> <<>>]
NoFunctionCall ==
    [transport_error |-> FALSE,
     choices |-> <<[has_function_call |-> FALSE, name |-> None, arguments |-> <<>>]>>]
FunctionCallResponse(name, text) ==
    [transport_error |-> FALSE,
     choices |-> <<[has_function_call |-> TRUE, name |-> name, arguments |-> text]>>]

\* Every response of the service, and a few of each kind.
Responses ==
    {TransportError, NoChoices, NoFunctionCall}
    \cup {FunctionCallResponse("query_knowledgebase", text) : text \in ArgumentTexts}
FewResponses ==
    {TransportError, NoFunctionCall,
     FunctionCallResponse("query_knowledgebase",
                          Dumps(JObj([k \in {"queries"} |-> JArr(<<JStr("a")>>)]))),
     FunctionCallResponse("query_knowledgebase",
                          Dumps(JObj([k \in {"queries"} |-> JStr("a")]))),
     FunctionCallResponse("query_knowledgebase",
                          <<Punct("{"), WordTok("queries"), Punct(":"), Punct("["),
                            WordTok("oops"), Punct("]"), Punct("}")>>)}

(***************************************************************************)
(* Specifications                                                          *)
(***************************************************************************)
InitOver(E) ==
    /\ env \in E
    /\ api_type = "open_ai"
    /\ ctor = NotConstructed
    /\ adapter = NoAdapter
    /\ thr = [t \in Threads |-> IdleThread]

NextOver(T, A, KW, H, F, MT, O, R) ==
    \/ \E m \in ModelNames, a \in A, kw \in KW : Construct(m, a, kw)
    \/ \E t \in T, h \in H, f \in F, mt \in MT, o \in O :
          enforced_function_call(t, h, f, mt, o)
    \/ \E t \in T, r \in R : create_returns(t, r)
    \/ \E t \in T, h \in H, st \in BOOLEAN, mt \in MT, o \in O :
          achat_completion(t, h, st, mt, o)
    \/ \E t \in T, h \in H, mt \in MT, o \in O : agenerate_queries(t, h, mt, o)
    \/ \E t \in T : caller_continues(t)

OneHistory == {<<[role |-> "Role.USER", content |-> "Hello! How are you?"]>>}
FewDicts == {EmptyDict, [k \in {"temperature"} |-> 1]}

\* Construction under every environment and every choice of arguments.
InitCtor == InitOver(Envs)
NextCtor ==
    NextOver({1}, CtorArgs, FewDicts, OneHistory, {QueryKnowledgebase}, {NoneInt},
             {NoneDict}, {TransportError, NoFunctionCall})
SpecCtor == InitCtor /\ [][NextCtor]_vars

\* Requests: every history, function, max_tokens, defaults and overrides.
InitReq == InitOver({FullEnv})
NextReq ==
    NextOver({1}, {NoArgs}, ParamDicts, OneHistory, {QueryKnowledgebase},
             OptTokens, OptParamDicts, {TransportError, NoFunctionCall})
SpecReq == InitReq /\ [][NextReq]_vars

NextMsgs ==
    NextOver({1}, {NoArgs}, FewDicts, Histories, Functions, OptTokens,
             {NoneDict, SomeDict([k \in {"top_p"} |-> 1])},
             {TransportError, NoFunctionCall})
SpecMsgs == InitReq /\ [][NextMsgs]_vars

\* Responses: every response of the service to every function.
NextResp ==
    NextOver({1}, {NoArgs}, {EmptyDict}, OneHistory,
             FunctionsNamed({"query_knowledgebase"}), {NoneInt},
             {NoneDict}, Responses)
SpecResp == InitReq /\ [][NextResp]_vars

\* Two threads calling one adapter.
Next ==
    NextOver(Threads, {NoArgs},
             {EmptyDict, [k \in {"temperature"} |-> 1], [k \in {"max_tokens"} |-> 1]},
             OneHistory, {QueryKnowledgebase}, {NoneInt},
             {NoneDict, SomeDict(EmptyDict), SomeDict([k \in {"temperature"} |-> 2]),
              SomeDict([k \in {"top_p"} |-> 1]), SomeDict([k \in {"max_tokens"} |-> 1])},
             FewResponses)
Init == InitReq
Spec == Init /\ [][Next]_vars


(***************************************************************************)
(* Properties                                                              *)
(***************************************************************************)
\* A call of enforced_function_call on thread t that has run to its end.
CallDone(t) == thr[t].op = "enforced_function_call" /\ thr[t].pc = "done"

\* A call of enforced_function_call on thread t whose request went out.
RequestSent(t) == thr[t].op = "enforced_function_call" /\ thr[t].nreq >= 1

\* The service answered thread t's request with a function call that
\* carries an arguments string.
HasArguments(t) ==
    /\ thr[t].got_response
    /\ ~thr[t].resp.transport_error
    /\ Len(thr[t].resp.choices) >= 1
    /\ thr[t].resp.choices[1].has_function_call

\* The value x is what the property schema ps allows.
ValueSatisfies(x, ps) ==
    /\ is_type(x, ps.type)
    /\ (ps.has_items /\ x.t = "array") =>
           \A i \in 1..Len(x.items) : is_type(x.items[i], ps.items_type)
    /\ ps.has_enum =>
           x.t = "string" /\ \E i \in 1..Len(ps.enum) : ps.enum[i] = x.s

\* The value v is an object that has every required property and whose
\* declared properties, where present, are what their schemas allow.
Satisfies(v, schema) ==
    /\ v.t = "object"
    /\ \A i \in 1..Len(schema.required) : schema.required[i] \in DOMAIN v.members
    /\ \A k \in DOMAIN v.members \cap DOMAIN schema.properties :
           ValueSatisfies(v.members[k], schema.properties[k])

SchemaOf(t) == FunctionParametersDict(thr[t].function.parameters)

\* C1: a mapping returned by enforced_function_call is the deserialized
\* arguments and satisfies the parameter schema of the function passed in;
\* deserialized arguments that violate the schema end the call in the error
\* jsonschema.validate raises (ValidationError; SchemaError when the
\* function's schema is itself invalid), with no result.
C1_ReturnedMappingSatisfiesSchema ==
    \A t \in Threads :
        CallDone(t) =>
            /\ thr[t].out.kind = "return" =>
                   /\ HasArguments(t)
                   /\ thr[t].out.value = json_loads(thr[t].resp.choices[1].arguments).value
                   /\ Satisfies(thr[t].out.value, SchemaOf(t))
            /\ (/\ HasArguments(t)
                /\ ~json_loads(thr[t].resp.choices[1].arguments).raised
                /\ ~Satisfies(json_loads(thr[t].resp.choices[1].arguments).value,
                              SchemaOf(t))) =>
                   /\ thr[t].validate_called
                   /\ thr[t].out =
                          IF \E i, j \in 1..Len(SchemaOf(t).required) :
                                 i # j /\ SchemaOf(t).required[i] = SchemaOf(t).required[j]
                          THEN Raise("SchemaError")
                          ELSE Raise("ValidationError")

\* A call returned an object with a "queries" array for a function that
\* requires one.
C1_Witness ==
    \E t \in Threads :
        /\ CallDone(t)
        /\ thr[t].out.kind = "return"
        /\ Len(thr[t].function.parameters.required_properties) >= 1
        /\ thr[t].out.value.t = "object"
        /\ "queries" \in DOMAIN thr[t].out.value.members
        /\ thr[t].out.value.members["queries"].t = "array"
        /\ Len(thr[t].out.value.members["queries"].items) >= 1

\* The text is JSON (RFC 8259): the decoder accepts it, and it holds none
\* of the three words that only the decoder knows.
ValidJson(text) ==
    /\ ~json_loads(text).raised
    /\ \A i \in 1..Len(text) :
           ~(text[i].k = "word" /\ text[i].w \in {"NaN", "Infinity", "-Infinity"})

\* C2: when the response has no choice, no function call, or an arguments
\* string that is not valid JSON, the call raises: nothing is validated,
\* nothing is returned, and no second request is made.
C2_MalformedResponseRaises ==
    \A t \in Threads :
        (CallDone(t) /\ thr[t].got_response /\ ~thr[t].resp.transport_error) =>
            /\ thr[t].nreq = 1
            /\ (\/ Len(thr[t].resp.choices) = 0
                \/ ~thr[t].resp.choices[1].has_function_call
                \/ ~ValidJson(thr[t].resp.choices[1].arguments)) =>
                   /\ thr[t].out.kind = "raise"
                   /\ thr[t].out.value = NoValue
                   /\ ~thr[t].validate_called

\* What the code does in the cases of C2: it raises, with nothing validated
\* or returned and one request made, when the response has no choice
\* (IndexError), no function call (AttributeError), or an arguments string
\* that json.loads does not decode (JSONDecodeError).
UndecodableResponseRaises ==
    \A t \in Threads :
        (CallDone(t) /\ thr[t].got_response /\ ~thr[t].resp.transport_error) =>
            /\ thr[t].nreq = 1
            /\ Len(thr[t].resp.choices) = 0 =>
                   thr[t].out = Raise("IndexError") /\ ~thr[t].validate_called
            /\ (Len(thr[t].resp.choices) >= 1
                   /\ ~thr[t].resp.choices[1].has_function_call) =>
                   thr[t].out = Raise("AttributeError") /\ ~thr[t].validate_called
            /\ (HasArguments(t)
                   /\ json_loads(thr[t].resp.choices[1].arguments).raised) =>
                   /\ thr[t].out = Raise("JSONDecodeError")
                   /\ ~thr[t].validate_called

\* An arguments string with NaN in it was decoded, validated and returned.
NaNArgumentsReturned ==
    \E t \in Threads :
        /\ CallDone(t)
        /\ HasArguments(t)
        /\ ~ValidJson(thr[t].resp.choices[1].arguments)
        /\ thr[t].out.kind = "return"

\* The overrides of thread t's call, as a dict (None is no override).
OverridesOf(t) ==
    IF thr[t].model_params.is_none THEN EmptyDict ELSE thr[t].model_params.dict

\* C3: the generation parameters of a request are the construction-time
\* defaults with every key of the call's overrides set to the override's
\* value, the other defaults kept, and no other key.
C3_EffectiveParamsAreDefaultsOverridden ==
    \A t \in Threads :
        RequestSent(t) =>
            LET D == ctor.kwargs
                O == OverridesOf(t)
                P == thr[t].req.params
            IN  /\ DOMAIN P = DOMAIN D \cup DOMAIN O
                /\ \A k \in DOMAIN O : P[k] = O[k]
                /\ \A k \in DOMAIN D \ DOMAIN O : P[k] = D[k]

\* A request went out with a default overridden and another key added.
C3_Witness ==
    \E t \in Threads :
        /\ RequestSent(t)
        /\ ctor.kwargs = [k \in {"temperature"} |-> 1]
        /\ DOMAIN OverridesOf(t) = {"temperature", "top_p"}
        /\ OverridesOf(t)["temperature"] = 2
        /\ thr[t].req.params["temperature"] = 2
        /\ thr[t].req.params["top_p"] = OverridesOf(t)["top_p"]

\* The environment variable and the constructor argument of each required
\* configuration value.
Required ==
    {<<"AZURE_OPENAI_API_KEY", "azure_api_key", "api_key">>,
     <<"AZURE_OPENAI_ENDPOINT", "azure_endpoint", "azure_endpoint">>,
     <<"OPENAI_API_VERSION", "azure_api_version", "api_version">>,
     <<"AZURE_DEPLOYMENT", "azure_deployment", "azure_deployment">>}

\* The value neither the argument nor the environment yields.
Unavailable(r) == ctor.args[r[2]] = None /\ env[r[1]] = Unset

\* C4: construction takes each required value from the constructor
\* argument if given, otherwise from its environment variable; it succeeds
\* when every value is available from one of the two, and fails with an
\* EnvironmentError naming a missing value when one is available from
\* neither.
C4_ConstructionResolvesOrFailsFast ==
    ctor.status # "none" =>
        /\ (\A r \in Required : ~Unavailable(r)) =>
               /\ ctor.status = "ok"
               /\ \A r \in Required :
                      adapter.client[r[3]] =
                          IF ctor.args[r[2]] # None THEN ctor.args[r[2]] ELSE env[r[1]]
        /\ (\E r \in Required : Unavailable(r)) =>
               /\ ctor.status = "raised"
               /\ ctor.error = "EnvironmentError"
               /\ \E r \in Required : Unavailable(r) /\ ctor.missing = r[1]
               /\ \A t \in Threads : thr[t].nreq = 0

\* C5 (as stated): whenever the adapter exists, and so whenever a request
\* can go out, the client was given a value, not None, for the credential,
\* the endpoint, the API version and the deployment; no operation runs
\* without an adapter.
C5_ClientGivenAllFour ==
    /\ adapter.exists =>
           /\ ctor.status = "ok"
           /\ \A r \in Required : adapter.client_args[r[3]] # None
    /\ \A t \in Threads : thr[t].op # "none" => adapter.exists

\* C5 (amended): whenever the adapter exists, the client was given a
\* deployment that is not None (the argument, else the environment
\* variable), and for the credential, the endpoint and the API version it
\* was given the constructor argument as received: a value, or None with
\* the value's environment variable set; no operation runs without an
\* adapter.
C5_NoPartiallyConfiguredAdapter ==
    /\ adapter.exists =>
           /\ ctor.status = "ok"
           /\ adapter.client_args.azure_deployment =
                  IF ctor.args.azure_deployment # None
                  THEN ctor.args.azure_deployment ELSE env["AZURE_DEPLOYMENT"]
           /\ adapter.client_args.azure_deployment \in {ArgValue, EnvValue}
           /\ \A r \in Required :
                  r[1] # "AZURE_DEPLOYMENT" =>
                      /\ adapter.client_args[r[3]] = ctor.args[r[2]]
                      /\ adapter.client_args[r[3]] = None => env[r[1]] = EnvValue
    /\ \A t \in Threads : thr[t].op # "none" => adapter.exists

\* A request went out from an adapter constructed with no argument at all:
\* its client was given the environment's deployment and None three times.
C5_Witness ==
    /\ ctor.args = NoArgs
    /\ adapter.exists
    /\ adapter.client_args.azure_deployment = EnvValue
    /\ adapter.client_args.api_key = None
    /\ adapter.client_args.azure_endpoint = None
    /\ adapter.client_args.api_version = None
    /\ \E t \in Threads : RequestSent(t)

\* C6: every call of enforced_function_call issues exactly one request,
\* whatever its outcome, and a transport error ends it with nothing parsed
\* or validated.
C6_ExactlyOneRequestPerCall ==
    \A t \in Threads :
        thr[t].op = "enforced_function_call" =>
            /\ thr[t].nreq = 1
            /\ (thr[t].got_response /\ thr[t].resp.transport_error) =>
                   /\ thr[t].out = Raise("APIConnectionError")
                   /\ ~thr[t].loads_called
                   /\ ~thr[t].validate_called

\* C7: the request's forced-call directive is {name: f} for the function f
\* passed in, and its function list holds that function's descriptor alone.
C7_ForcedCallNamesTheFunction ==
    \A t \in Threads :
        RequestSent(t) =>
            /\ thr[t].req.function_call = [name |-> thr[t].function.name]
            /\ Len(thr[t].req.functions) = 1
            /\ thr[t].req.functions[1].name = thr[t].function.name
            /\ thr[t].req.functions[1].description = thr[t].function.description
            /\ thr[t].req.functions[1].parameters = SchemaOf(t)

\* A request for the function "f" with two messages, a max_tokens and
\* generation parameters.
C7_Witness ==
    \E t \in Threads :
        /\ RequestSent(t)
        /\ thr[t].function.name = "f"
        /\ Len(thr[t].messages) = 2
        /\ ~thr[t].max_tokens.is_none
        /\ thr[t].req.params # EmptyDict

\* C8: achat_completion and agenerate_queries end in NotImplementedError
\* for every input, with no result and no request.
C8_AsyncOperationsUnsupported ==
    \A t \in Threads :
        thr[t].op \in {"achat_completion", "agenerate_queries"} =>
            /\ thr[t].pc = "done"
            /\ thr[t].out = Raise("NotImplementedError")
            /\ thr[t].nreq = 0
            /\ ~thr[t].got_response

\* achat_completion was awaited with a history of two messages.
C8_Witness ==
    \E t \in Threads :
        /\ thr[t].op = "achat_completion"
        /\ Len(thr[t].messages) = 2
        /\ thr[t].out.kind = "raise"

\* C9: the stored defaults stay the mapping given at construction, and the
\* parameters of every request are made of that mapping and the request's
\* own overrides alone, whatever the other thread's call overrides.
C9_DefaultsUnchangedByCalls ==
    /\ adapter.exists => adapter.default_model_params = ctor.kwargs
    /\ \A t \in Threads :
           RequestSent(t) =>
               thr[t].req.params =
                   [k \in DOMAIN ctor.kwargs \cup DOMAIN OverridesOf(t) |->
                       IF k \in DOMAIN OverridesOf(t)
                       THEN OverridesOf(t)[k] ELSE ctor.kwargs[k]]

\* Thread 1 overrode the temperature default; thread 2, with no override,
\* sent the default.
C9_Witness ==
    /\ ctor.kwargs = [k \in {"temperature"} |-> 1]
    /\ RequestSent(1)
    /\ thr[1].req.params = [k \in {"temperature"} |-> 2]
    /\ thr[1].pc = "done"
    /\ RequestSent(2)
    /\ thr[2].model_params.is_none
    /\ thr[2].req.params = [k \in {"temperature"} |-> 1]

\* C10: the request's message list has the length of the caller's history
\* and its i-th element is the role and content of the i-th message.
C10_MessagesKeepOrder ==
    \A t \in Threads :
        RequestSent(t) =>
            /\ Len(thr[t].req.messages) = Len(thr[t].messages)
            /\ \A i \in 1..Len(thr[t].messages) :
                   /\ thr[t].req.messages[i].role = RoleValue(thr[t].messages[i].role)
                   /\ thr[t].req.messages[i].content = thr[t].messages[i].content

\* A request with a user message followed by an assistant message.
C10_Witness ==
    \E t \in Threads :
        /\ RequestSent(t)
        /\ Len(thr[t].messages) = 2
        /\ thr[t].messages[1].role = "Role.USER"
        /\ thr[t].messages[2].role = "Role.ASSISTANT"
        /\ thr[t].req.messages[2].role = "assistant"


====
